---- MODULE Spec2Model ----
(***************************************************************************)
(* Model of UtilityMethods.fetchWithTimeout and UtilityMethods.truncateText *)
(* (docs/Method.js).                                                        *)
(*                                                                          *)
(* fetchWithTimeout is an async function: its synchronous prefix creates an *)
(* AbortController, schedules one timer whose callback aborts the           *)
(* controller, hands the merged options to the transport (fetch) and        *)
(* suspends on the transport's promise.  The event loop then runs, in any   *)
(* order the host allows, the timer callback, the transport's settlement of *)
(* the promise, and the continuation of the async function.  The transport  *)
(* is the environment: it may fulfil the promise, reject it with an error   *)
(* of its own, or reject it with the signal's abort reason once the signal  *)
(* is aborted; nothing in the helper forces it to do any of these.          *)
(***************************************************************************)
EXTENDS Integers, Sequences, FiniteSets, TLC

\* Number of invocations of fetchWithTimeout in flight in one run.
NInv == 2
\* Longest text, and longest suffix, handed to truncateText.
MaxLen == 3

\* The default of the timeout parameter (milliseconds).
DefaultTimeout == 5000

Invocations == 1..NInv

VARIABLES
    pc,          \* pc[i]: "init" (not called), "await" (suspended at the await), "done"
    options,     \* options[i]: the options bag the caller passed
    sent,        \* sent[i]: the options object handed to the transport
    timerId,     \* timerId[i]: the local const id (0 before the call)
    timers,      \* the host's table of scheduled timers: id -> [controller, delay]
    nextTimerId, \* the host's next timer id
    aborted,     \* aborted[c]: controller c's signal.aborted
    abortCalls,  \* abortCalls[c]: how many times controller c's abort() was called
    fired,       \* fired[i]: the callback of the timer invocation i scheduled has run
    scheduled,   \* scheduled[i]: how many timers invocation i scheduled
    promise,     \* promise[i]: the promise the transport returned to invocation i
    outcome,     \* outcome[i]: how invocation i ended (return value or thrown error)
    settles,     \* settles[i]: how many times invocation i returned or threw
    text,        \* truncateText: parameter text
    maxLength,   \* truncateText: parameter maxLength
    suffix,      \* truncateText: parameter suffix
    result,      \* truncateText: returned string
    tpc          \* truncateText: "idle", "called", "returned"

fetchVars == <<pc, options, sent, timerId, timers, nextTimerId, aborted, abortCalls,
               fired, scheduled, promise, outcome, settles>>
truncVars == <<text, maxLength, suffix, result, tpc>>
vars == <<pc, options, sent, timerId, timers, nextTimerId, aborted, abortCalls,
          fired, scheduled, promise, outcome, settles,
          text, maxLength, suffix, result, tpc>>

----------------------------------------------------------------------------
(* Values: responses and errors, as records of one shape.                   *)

Undefined == [type |-> "undefined", name |-> "", message |-> ""]

\* What the transport can fulfil its promise with.
Responses ==
    { [type |-> "Response", name |-> "", message |-> "200"],
      [type |-> "Response", name |-> "", message |-> "500"] }

\* Errors the transport can reject with for reasons of its own: a network
\* failure, and an abort-type error not caused by the helper's controller.
NetworkError == [type |-> "Error", name |-> "TypeError", message |-> "Failed to fetch"]
ForeignAbort == [type |-> "Error", name |-> "AbortError", message |-> "aborted by the transport"]
TransportErrors == {NetworkError, ForeignAbort}

\* The reason a transport rejects with when it observes the aborted signal.
SignalAbortReason ==
    [type |-> "Error", name |-> "AbortError", message |-> "signal is aborted without reason"]

\* new Error("La requete a ete abandonnee : delai d'attente depasse")
TimedOut ==
    [type |-> "Error", name |-> "Error",
     message |-> "La requete a ete abandonnee : delai d'attente depasse"]

Pending == [state |-> "pending", value |-> Undefined]
NoOutcome == [kind |-> "none", value |-> Undefined]

----------------------------------------------------------------------------
(* Options bags.                                                            *)

NoOptions == [k \in {} |-> [tag |-> "", n |-> 0]]

Method == [tag |-> "POST", n |-> 0]
CallerSignal == [tag |-> "callerSignal", n |-> 0]
ControllerSignal(c) == [tag |-> "controllerSignal", n |-> c]

\* The options bags a caller passes: the default {}, and a method together
\* with a cancellation signal of the caller's own.
CallerOptions ==
    { NoOptions,
      [k \in {"method", "signal"} |-> IF k = "method" THEN Method ELSE CallerSignal] }

\* The timeouts a caller passes: none is validated.
Timeouts == {0, DefaultTimeout}

\* A merge with the spread last, { signal, ...options }: the caller's signal wins.
MergeOptionsSpreadLast(opts, sig) ==
    [k \in (DOMAIN opts) \cup {"signal"} |-> IF k \in DOMAIN opts THEN opts[k] ELSE sig]

\* { ...options, signal: a property named twice keeps the later value.
MergeOptions(opts, sig) ==
    [k \in (DOMAIN opts) \cup {"signal"} |-> IF k = "signal" THEN sig ELSE opts[k]]

----------------------------------------------------------------------------
(* The host's timers and the controller.                                    *)

\* A controller created once and shared by every invocation.
SharedController(i) == 1

\* new AbortController(): each invocation creates its own; invocation i's is
\* controller i.
NewController(i) == i

\* setTimeout(cb, delay): the id the host gives the new timer.
NewTimerId(next) == next

\* The timer table after setTimeout.
SetTimeout(tbl, id, c, delay) ==
    [t \in (DOMAIN tbl) \cup {id} |->
        IF t = id THEN [controller |-> c, delay |-> delay] ELSE tbl[t]]

\* An exit path that leaves out clearTimeout(id).
ClearTimeoutSkipped(tbl, id) == tbl

\* clearTimeout(id): no effect when no such timer is scheduled.
ClearTimeout(tbl, id) == [t \in (DOMAIN tbl) \ {id} |-> tbl[t]]

\* A timer that stays scheduled after its callback has run (setInterval).
AfterFireRepeating(tbl, id) == tbl

\* The timer table once the callback of timer id has run: a timeout runs once.
AfterFire(tbl, id) == [t \in (DOMAIN tbl) \ {id} |-> tbl[t]]

\* A promise reaction is queued: an invocation is suspended on a settled promise.
\* The host drains these before it runs the next timer task.
MicrotaskPending == \E i \in Invocations : pc[i] = "await" /\ promise[i].state # "pending"

----------------------------------------------------------------------------
(* fetchWithTimeout                                                         *)

InitFetch ==
    /\ pc = [i \in Invocations |-> "init"]
    /\ options = [i \in Invocations |-> NoOptions]
    /\ sent = [i \in Invocations |-> NoOptions]
    /\ timerId = [i \in Invocations |-> 0]
    /\ timers = [t \in {} |-> [controller |-> 0, delay |-> 0]]
    /\ nextTimerId = 1
    /\ aborted = [i \in Invocations |-> FALSE]
    /\ abortCalls = [i \in Invocations |-> 0]
    /\ fired = [i \in Invocations |-> FALSE]
    /\ scheduled = [i \in Invocations |-> 0]
    /\ promise = [i \in Invocations |-> Pending]
    /\ outcome = [i \in Invocations |-> NoOutcome]
    /\ settles = [i \in Invocations |-> 0]

\* The synchronous prefix: new AbortController, setTimeout, fetch(url, {...}), await.
Call(i, opts, timeout) ==
    /\ pc[i] = "init"
    /\ LET controller == NewController(i)
           id == NewTimerId(nextTimerId)
       IN
        /\ timerId' = [timerId EXCEPT ![i] = id]
        /\ timers' = SetTimeout(timers, id, controller, timeout)
        /\ sent' = [sent EXCEPT ![i] = MergeOptions(opts, ControllerSignal(controller))]
    /\ nextTimerId' = nextTimerId + 1
    /\ scheduled' = [scheduled EXCEPT ![i] = @ + 1]
    /\ options' = [options EXCEPT ![i] = opts]
    /\ pc' = [pc EXCEPT ![i] = "await"]
    /\ UNCHANGED <<aborted, abortCalls, fired, promise, outcome, settles>>
    /\ UNCHANGED truncVars

\* The timer callback () => controller.abort().
TimerFire(id) ==
    /\ id \in DOMAIN timers
    /\ ~MicrotaskPending
    /\ LET c == timers[id].controller IN
        /\ aborted' = [aborted EXCEPT ![c] = TRUE]
        /\ abortCalls' = [abortCalls EXCEPT ![c] = @ + 1]
        /\ fired' = [j \in Invocations |-> fired[j] \/ timerId[j] = id]
    /\ timers' = AfterFire(timers, id)
    /\ UNCHANGED <<pc, options, sent, timerId, nextTimerId, scheduled, promise,
                   outcome, settles>>
    /\ UNCHANGED truncVars

\* The transport fulfils the promise with a response; it need not have
\* looked at the signal.
TransportResolve(i, r) ==
    /\ pc[i] = "await"
    /\ promise[i].state = "pending"
    /\ promise' = [promise EXCEPT ![i] = [state |-> "fulfilled", value |-> r]]
    /\ UNCHANGED <<pc, options, sent, timerId, timers, nextTimerId, aborted, abortCalls,
                   fired, scheduled, outcome, settles>>
    /\ UNCHANGED truncVars

\* The transport rejects the promise with an error of its own.
TransportReject(i, e) ==
    /\ pc[i] = "await"
    /\ promise[i].state = "pending"
    /\ promise' = [promise EXCEPT ![i] = [state |-> "rejected", value |-> e]]
    /\ UNCHANGED <<pc, options, sent, timerId, timers, nextTimerId, aborted, abortCalls,
                   fired, scheduled, outcome, settles>>
    /\ UNCHANGED truncVars

\* The transport observes that the signal it was given is aborted and rejects
\* with the abort reason.
TransportAbort(i) ==
    /\ pc[i] = "await"
    /\ promise[i].state = "pending"
    /\ sent[i]["signal"].tag = "controllerSignal"
    /\ aborted[sent[i]["signal"].n]
    /\ promise' = [promise EXCEPT ![i] = [state |-> "rejected", value |-> SignalAbortReason]]
    /\ UNCHANGED <<pc, options, sent, timerId, timers, nextTimerId, aborted, abortCalls,
                   fired, scheduled, outcome, settles>>
    /\ UNCHANGED truncVars

\* A return that post-processes the response (return response.json()).
ReturnValueParsed(response) ==
    [kind |-> "return", value |-> [response EXCEPT !.type = "Object"]]

\* What the try block does once the awaited promise is fulfilled.
ReturnValue(response) == [kind |-> "return", value |-> response]

\* A catch block that reports every failure as a timeout.
ThrownAlwaysTimedOut(error) == [kind |-> "throw", value |-> TimedOut]

\* What the catch block throws for the caught error.
Thrown(error) ==
    IF error.name = "AbortError"
    THEN [kind |-> "throw", value |-> TimedOut]
    ELSE [kind |-> "throw", value |-> error]

\* The continuation after a fulfilled await: clearTimeout(id); return response.
ResumeReturn(i) ==
    /\ pc[i] = "await"
    /\ promise[i].state = "fulfilled"
    /\ timers' = ClearTimeout(timers, timerId[i])
    /\ outcome' = [outcome EXCEPT ![i] = ReturnValue(promise[i].value)]
    /\ settles' = [settles EXCEPT ![i] = @ + 1]
    /\ pc' = [pc EXCEPT ![i] = "done"]
    /\ UNCHANGED <<options, sent, timerId, nextTimerId, aborted, abortCalls, fired,
                   scheduled, promise>>
    /\ UNCHANGED truncVars

\* The continuation after a rejected await: the catch block.
ResumeCatch(i) ==
    /\ pc[i] = "await"
    /\ promise[i].state = "rejected"
    /\ timers' = ClearTimeout(timers, timerId[i])
    /\ outcome' = [outcome EXCEPT ![i] = Thrown(promise[i].value)]
    /\ settles' = [settles EXCEPT ![i] = @ + 1]
    /\ pc' = [pc EXCEPT ![i] = "done"]
    /\ UNCHANGED <<options, sent, timerId, nextTimerId, aborted, abortCalls, fired,
                   scheduled, promise>>
    /\ UNCHANGED truncVars

----------------------------------------------------------------------------
(* truncateText                                                             *)

Chars == {"a", "b"}
SuffixChars == {"."}

RECURSIVE SeqsUpTo(_, _)
SeqsUpTo(S, n) ==
    IF n = 0 THEN {<<>>}
    ELSE LET shorter == SeqsUpTo(S, n - 1) IN
         shorter \cup {Append(s, c) : s \in shorter, c \in S}

Texts == SeqsUpTo(Chars, MaxLen)
Suffixes == SeqsUpTo(SuffixChars, MaxLen)
MaxLengths == 0..(MaxLen + 1)

Clamp(n, len) == IF n < 0 THEN 0 ELSE IF n > len THEN len ELSE n

\* String.prototype.substring(start, end): both indices are clamped to
\* [0, length] and swapped when start > end.
Substring(s, start, end) ==
    LET a == Clamp(start, Len(s))
        b == Clamp(end, Len(s))
        lo == IF a <= b THEN a ELSE b
        hi == IF a <= b THEN b ELSE a
    IN SubSeq(s, lo + 1, hi)

truncateText(t, max, suf) ==
    IF Len(t) <= max THEN t
    ELSE Substring(t, 0, max - Len(suf)) \o suf

InitTruncateIdle ==
    /\ text = <<>>
    /\ maxLength = 0
    /\ suffix = <<>>
    /\ result = <<>>
    /\ tpc = "idle"

InitTruncate ==
    /\ text \in Texts
    /\ maxLength \in MaxLengths
    /\ suffix \in Suffixes
    /\ result = <<>>
    /\ tpc = "called"

TruncateText ==
    /\ tpc = "called"
    /\ result' = truncateText(text, maxLength, suffix)
    /\ tpc' = "returned"
    /\ UNCHANGED <<text, maxLength, suffix>>
    /\ UNCHANGED fetchVars

----------------------------------------------------------------------------
(* Specifications                                                           *)

Init == InitFetch /\ InitTruncateIdle

Next ==
    \/ \E i \in Invocations, o \in CallerOptions, t \in Timeouts : Call(i, o, t)
    \/ \E id \in DOMAIN timers : TimerFire(id)
    \/ \E i \in Invocations, r \in Responses : TransportResolve(i, r)
    \/ \E i \in Invocations, e \in TransportErrors : TransportReject(i, e)
    \/ \E i \in Invocations : TransportAbort(i)
    \/ \E i \in Invocations : ResumeReturn(i)
    \/ \E i \in Invocations : ResumeCatch(i)

Spec == Init /\ [][Next]_vars

\* The event loop runs every queued continuation and every scheduled timer;
\* the transport is under no obligation to settle.
Fairness ==
    /\ \A i \in Invocations : WF_vars(ResumeReturn(i))
    /\ \A i \in Invocations : WF_vars(ResumeCatch(i))
    /\ \A id \in 1..NInv : WF_vars(TimerFire(id))

FairSpec == Init /\ [][Next]_vars /\ Fairness

InitT == InitFetch /\ InitTruncate
NextT == TruncateText
SpecTruncate == InitT /\ [][NextT]_vars

----------------------------------------------------------------------------
(* Properties                                                               *)

Returned(i, r) == outcome[i] = [kind |-> "return", value |-> r]
Threw(i, e) == outcome[i] = [kind |-> "throw", value |-> e]
TimerPending(i) == timerId[i] \in DOMAIN timers

\* C1: whenever the timer of an invocation fired before its request settled,
\* the invocation ends by throwing the TimedOut error, whatever the transport
\* did after the timer fired.
C1_TimerFirstMeansTimedOut ==
    \A i \in Invocations : (pc[i] = "done" /\ fired[i]) => Threw(i, TimedOut)

\* C2: an invocation throws TimedOut only if its own timer fired before the
\* request settled; a rejection that arrives while the timer is still pending
\* is thrown as the original error, also when it is an abort-type error.
C2_TimedOutOnlyAfterOwnTimer ==
    \A i \in Invocations :
        pc[i] = "done" =>
            /\ Threw(i, TimedOut) => fired[i]
            /\ (promise[i].state = "rejected" /\ ~fired[i]) => Threw(i, promise[i].value)

\* C3: when the request is fulfilled before the timer fires, the invocation
\* returns exactly the response the transport produced and does not throw.
C3_ResponseReturnedAsIs ==
    \A i \in Invocations :
        (pc[i] = "done" /\ promise[i].state = "fulfilled" /\ ~fired[i])
            => Returned(i, promise[i].value)

C3_Witness ==
    \E i \in Invocations :
        /\ pc[i] = "done" /\ promise[i].state = "fulfilled" /\ ~fired[i]
        /\ promise[i].value \in Responses

\* C4: when the request is rejected with an error that is not an abort-type
\* error, the invocation throws that same error value, not wrapped and not
\* replaced by TimedOut.
C4_OtherFailureUnchanged ==
    \A i \in Invocations :
        (pc[i] = "done" /\ promise[i].state = "rejected"
                        /\ promise[i].value.name # "AbortError")
            => Threw(i, promise[i].value)

C4_Witness ==
    \E i \in Invocations :
        pc[i] = "done" /\ promise[i] = [state |-> "rejected", value |-> NetworkError]

\* C5: every invocation schedules exactly one timer; once the invocation has
\* returned or thrown its timer is no longer scheduled, and no step calls
\* abort() on the controller of an invocation that has already ended.
C5_TimerClearedOnEveryExit ==
    /\ [](\A i \in Invocations :
            /\ pc[i] # "init" => scheduled[i] = 1
            /\ pc[i] = "done" => ~TimerPending(i))
    /\ [][\A i \in Invocations : pc[i] = "done" => abortCalls'[i] = abortCalls[i]]_vars

C5_Witness ==
    /\ \E i \in Invocations : pc[i] = "done" /\ outcome[i].kind = "return" /\ ~fired[i]
    /\ \E i \in Invocations : pc[i] = "done" /\ Threw(i, NetworkError) /\ ~fired[i]

\* C6: every invocation that was started eventually ends, in particular once
\* its timer has fired, also when the transport never settles the request; it
\* ends exactly once, as a success, a timeout or another failure.
C6_AlwaysTerminatesOnce ==
    /\ \A i \in Invocations : (pc[i] = "await") ~> (pc[i] = "done")
    /\ \A i \in Invocations : fired[i] ~> (pc[i] = "done")
    /\ [](\A i \in Invocations :
            /\ settles[i] <= 1
            /\ pc[i] = "done" => (settles[i] = 1 /\ outcome[i].kind \in {"return", "throw"}))

\* C7 as stated: every key of the caller's options, the caller's cancellation
\* signal included, reaches the transport with the caller's value.
C7_AllOptionsPassThrough ==
    \A i \in Invocations :
        pc[i] # "init" =>
            \A k \in DOMAIN options[i] :
                k \in DOMAIN sent[i] /\ sent[i][k] = options[i][k]

\* C7 as amended: every key of the caller's options other than "signal"
\* reaches the transport with the caller's value; the "signal" key always
\* holds the signal of the invocation's own controller.
C7_OptionsPassThroughExceptSignal ==
    \A i \in Invocations :
        pc[i] # "init" =>
            /\ \A k \in (DOMAIN options[i]) \ {"signal"} :
                    k \in DOMAIN sent[i] /\ sent[i][k] = options[i][k]
            /\ "signal" \in DOMAIN sent[i]
            /\ sent[i]["signal"] = ControllerSignal(i)

C7_Witness ==
    \E i \in Invocations :
        /\ pc[i] # "init"
        /\ DOMAIN options[i] = {"method", "signal"}
        /\ options[i]["signal"] = CallerSignal

\* C8: the string truncateText returns is at most maxLength long; it is the
\* text itself when the text is at most maxLength long and it ends with the
\* suffix otherwise.
EndsWith(s, suf) ==
    Len(suf) <= Len(s) /\ SubSeq(s, Len(s) - Len(suf) + 1, Len(s)) = suf

C8_TruncatedToMaxLength ==
    tpc = "returned" =>
        /\ Len(result) <= maxLength
        /\ Len(text) <= maxLength => result = text
        /\ Len(text) > maxLength => EndsWith(result, suffix)

\* C9: an invocation whose timer fired has had abort() called on its
\* controller exactly once, and the signal the transport holds is aborted; no
\* invocation has abort() called on its controller more than once.
C9_AbortIssuedExactlyOnce ==
    \A i \in Invocations :
        /\ abortCalls[i] <= 1
        /\ fired[i] => (abortCalls[i] = 1 /\ aborted[sent[i]["signal"].n])

C9_Witness ==
    \E i \in Invocations : fired[i] /\ pc[i] = "done"

\* C10: a step in which the timer of one invocation fires or is cleared
\* leaves every other invocation as it was: its position, its request, its
\* outcome, its cancellation signal and whether its timer is scheduled.
Untouched(i) ==
    /\ pc'[i] = pc[i]
    /\ promise'[i] = promise[i]
    /\ outcome'[i] = outcome[i]
    /\ aborted'[i] = aborted[i]
    /\ abortCalls'[i] = abortCalls[i]
    /\ fired'[i] = fired[i]
    /\ timerId'[i] = timerId[i]
    /\ (timerId[i] \in DOMAIN timers') = (timerId[i] \in DOMAIN timers)

TimerStepOf(j) == TimerFire(timerId[j]) \/ ResumeReturn(j) \/ ResumeCatch(j)

C10_InvocationsIndependent ==
    [][\A j \in Invocations :
          TimerStepOf(j) => \A i \in Invocations \ {j} : Untouched(i)]_vars

C10_Witness ==
    \E i, j \in Invocations :
        /\ i # j
        /\ pc[i] = "done" /\ fired[i] /\ Threw(i, TimedOut)
        /\ pc[j] = "done" /\ ~fired[j] /\ outcome[j].kind = "return"

====
